---- MODULE Spec2Model ----
(***************************************************************************)
(* Verification model of the GlusterFS charm:                              *)
(*   - the brick planner of lib/gluster/lib.py                            *)
(*     (brick_and_server_product, find_new_peers, get_brick_list);        *)
(*   - the rolling upgrade of reactive/upgrade.py                         *)
(*     (roll_cluster, lock_and_roll, wait_on_previous_node and the marker *)
(*     files under /mnt/glusterfs/.upgrade).                              *)
(*   - the upgrade gate of reactive/upgrade.py (check_for_upgrade);       *)
(*   - the volume lifecycle of reactive/main.py (create_gluster_volume,   *)
(*     create_volume, expand_volume, shrink_volume) with the create,      *)
(*     add-brick and remove-brick calls of lib/gluster/volume.py;         *)
(*   - the peer readiness test of lib/gluster/lib.py (peers_are_ready,    *)
(*     wait_for_peers and the passes of its loop);                        *)
(*   - the peers of lib/gluster/peer.py (State.from_str, peer_list,       *)
(*     peer_probe);                                                        *)
(*   - the handlers initialize_volume and server_connected of             *)
(*     reactive/main.py with the flags and the leader settings they set.  *)
(*                                                                         *)
(* A peer map (a Python dict, iterated in insertion order) is a sequence  *)
(* of entries [unit, address, bricks]; "unit" is the dict key.  Host      *)
(* addresses and device paths are numbered: address h stands for the h-th *)
(* host address, path d for the d-th mount path (/mnt/vdb<d>).            *)
(***************************************************************************)
EXTENDS Integers, Sequences, FiniteSets, TLC

\* ---------------------------------------------------------------- bounds
MaxPeers == 3
MaxHosts == 3
MaxDev == 2
MaxR == 2
MaxVolHosts == 2

None == "None"

\* Optional[Volume]: no volume
NoVolume == [absent |-> TRUE]

Hosts == 1..MaxHosts

\* ------------------------------------------------------------ data model
\* lib/gluster/volume.py Brick, with the Peer it holds
Brick(hostname, path, brick_uuid) ==
    [peer |-> [uuid |-> None, hostname |-> hostname, status |-> None],
     path |-> path, is_arbiter |-> FALSE, brick_uuid |-> brick_uuid]

\* result.Ok / result.Err
Ok(v) == [ok |-> TRUE, value |-> v]
Err(v) == [ok |-> FALSE, value |-> v]

\* lib.Status
Status == {"Created", "WaitForMorePeers", "InvalidConfig",
           "FailedToCreate", "FailedToStart", "Expanded"}

\* ------------------------------------------------- brick_and_server_product
\* a plausible slip: bricks[-1] for bricks[0]
ProductRoundLast(ps) ==
    [i \in 1..Len(ps) |->
        Brick(ps[i].address, ps[i].bricks[Len(ps[i].bricks)], None)]

\* one pass of the for loop: every peer gives its first device
ProductRound(ps) ==
    [i \in 1..Len(ps) |-> Brick(ps[i].address, Head(ps[i].bricks), None)]

\* the peer map after one pass: del bricks[0] on every entry
ProductPopped(ps) ==
    [i \in 1..Len(ps) |-> [ps[i] EXCEPT !.bricks = Tail(ps[i].bricks)]]

RECURSIVE ProductLoop(_)
ProductLoop(ps) ==
    IF \A i \in 1..Len(ps) : Len(ps[i].bricks) > 0
    THEN ProductRound(ps) \o ProductLoop(ProductPopped(ps))
    ELSE <<>>

brick_and_server_product(ps) == ProductLoop(ps)

\* the map the while loop leaves behind in the object it works on: every
\* entry has lost the devices that were placed
RECURSIVE ProductLeft(_)
ProductLeft(ps) ==
    IF \A i \in 1..Len(ps) : Len(ps[i].bricks) > 0
    THEN ProductLeft(ProductPopped(ps))
    ELSE ps

\* a plausible slip: _peers = peers, the loop deletes from the caller's map
peers_after_product_alias(ps) == ProductLeft(ps)

\* the caller's map after brick_and_server_product(peers): the loop works
\* on _peers = copy.deepcopy(peers) and the argument keeps its devices
peers_after_product(ps) == ps

\* ----------------------------------------------------------- find_new_peers
\* a plausible slip: the "not" of "if not existing_peer" is lost
find_new_peers_existing(ps, volume_info) ==
    LET existing_peer(e) ==
            \E b \in 1..Len(volume_info.bricks) :
                volume_info.bricks[b].peer.hostname = e.address
    IN  SelectSeq(ps, LAMBDA e : existing_peer(e))

find_new_peers(ps, volume_info) ==
    LET existing_peer(e) ==
            \E b \in 1..Len(volume_info.bricks) :
                volume_info.bricks[b].peer.hostname = e.address
    IN  SelectSeq(ps, LAMBDA e : ~existing_peer(e))

\* ----------------------------------------------------------- get_brick_list
\* a plausible slip: the remainder is dropped off the front
DropTailFront(ps, count) == SubSeq(ps, Len(ps) - count + 1, Len(ps))

\* "Drop these peers off the end of the list": keep the first count keys
DropTail(ps, count) == SubSeq(ps, 1, count)

get_brick_list(ps, vol, reps) ==
    IF vol = NoVolume
    THEN IF Len(ps) < reps
         THEN Err("WaitForMorePeers")
         ELSE IF Len(ps) = reps
         THEN Ok(brick_and_server_product(ps))
         ELSE LET count == Len(ps) - (Len(ps) % reps)
              IN  Ok(brick_and_server_product(DropTail(ps, count)))
    ELSE LET new_peers == find_new_peers(ps, vol)
         IN  IF Len(new_peers) < reps
             THEN Err("WaitForMorePeers")
             ELSE IF Len(new_peers) = reps
             THEN Ok(brick_and_server_product(new_peers))
             ELSE LET count == Len(new_peers) - (Len(new_peers) % reps)
                  IN  \* lib.py:333 copies peers, not new_peers
                      Ok(brick_and_server_product(DropTail(ps, count)))

\* the entries of the caller's map as a callee that shares them left them:
\* find_new_peers puts peers[peer] itself into new_peers, not a copy
SharedEntries(ps, left) ==
    [i \in 1..Len(ps) |->
        IF \E j \in 1..Len(left) : left[j].unit = ps[i].unit
        THEN left[CHOOSE j \in 1..Len(left) : left[j].unit = ps[i].unit]
        ELSE ps[i]]

\* the caller's map after get_brick_list(peers, volume): the product is
\* taken of peers itself, of a deepcopy of it, or of the map of
\* find_new_peers that shares its entries
peers_after_get_brick_list(ps, vol, reps) ==
    IF vol = NoVolume
    THEN IF Len(ps) = reps THEN peers_after_product(ps) ELSE ps
    ELSE LET new_peers == find_new_peers(ps, vol)
         IN  IF Len(new_peers) = reps
             THEN SharedEntries(ps, peers_after_product(new_peers))
             ELSE ps

\* --------------------------------------------------------- rolling upgrade
\* roll_cluster as written never gets past its peer enumeration: volume_info
\* returns a list and line 86 reads ".value" of it (roll_cluster_outcome).
\* lock_and_roll and wait_on_previous_node are therefore modelled as
\* operations of their own, called the way lines 98-108 of roll_cluster
\* call them: the peer at position 0 goes straight into lock_and_roll, any
\* other peer first waits on the peer one position before it.
NumPeers == 3
MaxTime == 700
TickLen == 601

\* wait_on_previous_node: a start marker older than this is a dead peer
Threshold == 600
\* random.randrange(5, 30)
MinSleep == 5
MaxSleep == 30

\* the peers of the cluster; p stands for the p-th UUID in ascending order
Peers == 1..NumPeers

\* the version roll_cluster is called with
NewVersion == "3.10.0"

\* "{}_{}_start".format(uuid, version), "{}_{}_done".format(uuid, version)
StartKey(uuid, version) == <<uuid, version, "start">>
DoneKey(uuid, version) == <<uuid, version, "done">>

Keys == {StartKey(p, NewVersion) : p \in Peers}
            \cup {DoneKey(p, NewVersion) : p \in Peers}

\* how a call ends: an exception, or a returned value
Raised(e) == [kind |-> "raise", value |-> e]
Returned(v) == [kind |-> "return", value |-> v]

\* Optional[float]
NoFloat == [some |-> FALSE]
Float(x) == [some |-> TRUE, val |-> x]

\* a plausible slip: the test looks at the marker directory, not the key
gluster_key_exists_dir(fs, dir, key) == dir

\* os.path.exists("/mnt/glusterfs/.upgrade/<key>")
gluster_key_exists(fs, dir, key) == dir /\ key \in DOMAIN fs

\* json.loads: decodes a str, raises TypeError on anything else
json_loads(s) ==
    IF s.type = "str" THEN Returned(Float(s.text)) ELSE Raised("TypeError")

\* f.readlines(): the list of the lines of the file
readlines(fs, key) == [type |-> "list", text |-> fs[key]]

\* gluster_key_get; ioerror: open() of the existing file fails
gluster_key_get(fs, dir, key, ioerror) ==
    IF ~(dir /\ key \in DOMAIN fs) THEN Returned(NoFloat)
    ELSE IF ioerror THEN Returned(NoFloat)
    ELSE json_loads(readlines(fs, key))

\* gluster_key_set: the outcome and the marker files it leaves
gluster_key_set(fs, dir, key, timestamp) ==
    LET path_exists == dir      \* os.path.exists(p)
        open_succeeds == dir    \* open(p/key, "w") needs the directory
    IN  IF path_exists
        THEN \* os.makedirs of the existing directory
             [out |-> Raised("FileExistsError"), files |-> fs]
        ELSE IF open_succeeds
             THEN [out |-> Returned(Ok("unit")),
                   files |-> [k \in DOMAIN fs \cup {key} |->
                                IF k = key THEN timestamp ELSE fs[k]]]
             ELSE [out |-> Returned(Err("No such file or directory")),
                   files |-> fs]

\* a plausible answer to the TODO of line 257: keep waiting
wait_decision_sleep(start_time, current_timestamp) ==
    IF start_time.kind = "raise" THEN "raise"
    ELSE IF start_time.value.some
         THEN IF current_timestamp - Threshold > start_time.value.val
              THEN "return"
              ELSE "sleep"
         ELSE "sleep"

\* the body of the while loop of wait_on_previous_node, lines 233-258
wait_decision(start_time, current_timestamp) ==
    IF start_time.kind = "raise" THEN "raise"
    ELSE IF start_time.value.some
         THEN IF current_timestamp - Threshold > start_time.value.val
              THEN "return"
              ELSE "sleep"
         ELSE "return"

\* roll_cluster up to the peer list, lines 77-88 and 109-111
roll_cluster_outcome(uuid_found, info_parses) ==
    IF ~uuid_found THEN Returned(Err("Unable to find UUID"))
    ELSE IF ~info_parses THEN Returned(Err("GlusterCmdOutputParseError"))
    ELSE \* volume_info returns a list: it has no attribute "value"
         Raised("AttributeError")

\* roll_cluster lines 98-108: who is waited on
Position(p) == p - 1
PreviousNode(p) == p - 1

\* ------------------------------------------------------------------ state
VARIABLES
    peers,      \* the peer map handed to the planner
    volume,     \* NoVolume, or the existing volume
    replicas,   \* config("replication_level") as parsed
    op,         \* the planner function that was called, "none" before
    result,     \* what it returned
    now,        \* time.time()
    dirExists,  \* /mnt/glusterfs/.upgrade exists
    files,      \* the marker files: key -> stored timestamp
    pc,         \* where each peer is in its upgrade
    polls,      \* passes of the while loop of wait_on_previous_node
    pollAt,     \* current_timestamp of the last pass
    sleeps,     \* time.sleep calls of wait_on_previous_node
    wakeAt,     \* when the running sleep ends
    ioError,    \* the last gluster_key_get hit an IOError
    startStamp, \* start_timestamp of lock_and_roll
    conf,       \* the charm configuration and what the environment answers
    calls,      \* the gluster CLI calls issued, in order
    iterations, \* iterations of the running wait_for_peers
    slept,      \* time.sleep(1) calls of the running wait_for_peers
    flags,      \* the reactive flags set on the unit
    settings    \* the leader settings: "probed-units" as a list of units

plannerVars == <<peers, volume, replicas, op, result>>

upgradeVars ==
    <<now, dirExists, files, pc, polls, pollAt, sleeps, wakeAt, ioError,
      startStamp>>

unitVars == <<iterations, slept, flags, settings>>

hookVars == <<conf, calls, iterations, slept, flags, settings>>

vars == <<peers, volume, replicas, op, result,
          now, dirExists, files, pc, polls, pollAt, sleeps, wakeAt, ioError,
          startStamp, conf, calls, iterations, slept, flags, settings>>

\* no wait is running, no flag is set, no unit was probed
UnitIdle ==
    /\ iterations = 0
    /\ slept = 0
    /\ flags = {}
    /\ settings = <<>>

\* no hook has read its configuration, no CLI call was made
HooksIdle ==
    /\ conf = [unset |-> TRUE]
    /\ calls = <<>>
    /\ UnitIdle

\* nothing of the upgrade has happened
UpgradeIdle ==
    /\ now = 0
    /\ pc = [p \in Peers |-> "idle"]
    /\ polls = [p \in Peers |-> 0]
    /\ pollAt = [p \in Peers |-> 0]
    /\ sleeps = [p \in Peers |-> 0]
    /\ wakeAt = [p \in Peers |-> 0]
    /\ ioError = [p \in Peers |-> FALSE]
    /\ startStamp = [p \in Peers |-> 0]

\* the mount paths of one unit: /mnt/vdb1 .. /mnt/vdb<n>
DeviceLists == {[d \in 1..n |-> d] : n \in 0..MaxDev}

\* address lists of n units, every unit with its own address
AddressLists(n) ==
    {a \in [1..n -> Hosts] : \A i, j \in 1..n : a[i] = a[j] => i = j}

PeerMaps ==
    UNION {
        {[i \in 1..n |-> [unit |-> i, address |-> a[i], bricks |-> d[i]]] :
            a \in AddressLists(n), d \in [1..n -> DeviceLists]}
        : n \in 1..MaxPeers}

RECURSIVE SetToSeq(_)
SetToSeq(S) ==
    IF S = {} THEN <<>>
    ELSE LET m == CHOOSE x \in S : \A y \in S : x <= y
         IN  <<m>> \o SetToSeq(S \ {m})

\* an existing volume as volume_info reports it: one brick per serving host
VolumeOf(S) ==
    LET hs == SetToSeq(S)
    IN  [bricks |-> [i \in 1..Len(hs) |-> Brick(hs[i], 1, "uuid")]]

Volumes ==
    {VolumeOf(S) : S \in {T \in SUBSET Hosts : Cardinality(T) <= MaxVolHosts}}

InitPlanner ==
    /\ peers \in PeerMaps
    /\ volume \in {NoVolume} \cup Volumes
    /\ replicas \in 1..MaxR
    /\ op = "none"
    /\ result = None
    /\ dirExists = FALSE
    /\ files = <<>>
    /\ UpgradeIdle
    /\ HooksIdle

CallProduct ==
    /\ op = "none"
    /\ op' = "brick_and_server_product"
    /\ result' = brick_and_server_product(peers)
    /\ peers' = peers_after_product(peers)
    /\ UNCHANGED <<volume, replicas>>
    /\ UNCHANGED upgradeVars
    /\ UNCHANGED hookVars

CallFindNewPeers ==
    /\ op = "none"
    /\ volume # NoVolume
    /\ op' = "find_new_peers"
    /\ result' = find_new_peers(peers, volume)
    /\ UNCHANGED <<peers, volume, replicas>>
    /\ UNCHANGED upgradeVars
    /\ UNCHANGED hookVars

CallGetBrickList ==
    /\ op = "none"
    /\ op' = "get_brick_list"
    /\ result' = get_brick_list(peers, volume, replicas)
    /\ peers' = peers_after_get_brick_list(peers, volume, replicas)
    /\ UNCHANGED <<volume, replicas>>
    /\ UNCHANGED upgradeVars
    /\ UNCHANGED hookVars

NextPlanner ==
    \/ CallProduct
    \/ CallFindNewPeers
    \/ CallGetBrickList

SpecPlanner == InitPlanner /\ [][NextPlanner]_vars

\* --------------------------------------------------- rolling upgrade steps
\* The code below never gets a marker into the store (gluster_key_set), so
\* the markers a run meets are those the shared mount already holds: per
\* peer none, a start marker, or a start and a done marker.
MarkerShapes == {{}, {"start"}, {"start", "done"}}

\* the marker stores: every marker found was stamped at time 0
Stores ==
    {[k \in {key \in Keys : key[3] \in shape[key[1]]} |-> 0] :
        shape \in [Peers -> MarkerShapes]}

InitUpgrade ==
    /\ dirExists \in BOOLEAN
    /\ files \in (IF dirExists THEN Stores ELSE {<<>>})
    /\ UpgradeIdle
    /\ peers = <<>>
    /\ volume = NoVolume
    /\ replicas = 3
    /\ op = "none"
    /\ result = None
    /\ HooksIdle

\* the clock moves on
Tick ==
    /\ now + TickLen <= MaxTime
    /\ now' = now + TickLen
    /\ UNCHANGED <<dirExists, files, pc, polls, pollAt, sleeps, wakeAt,
                   ioError, startStamp>>
    /\ UNCHANGED plannerVars
    /\ UNCHANGED hookVars

\* roll_cluster(new_version) as called by check_for_upgrade
roll_cluster(p) ==
    /\ pc[p] = "idle"
    /\ \E uuid_found, info_parses \in BOOLEAN :
          LET r == roll_cluster_outcome(uuid_found, info_parses)
          IN  pc' = [pc EXCEPT ![p] =
                        IF r.kind = "raise" THEN "rc_AttributeError"
                        ELSE "rc_Err"]
    /\ UNCHANGED <<now, dirExists, files, polls, pollAt, sleeps, wakeAt,
                   ioError, startStamp>>
    /\ UNCHANGED plannerVars
    /\ UNCHANGED hookVars

\* wait_on_previous_node lines 220-224: the first look for the done marker,
\* on the peer before p (roll_cluster line 107)
wait_on_previous_node(p) ==
    /\ pc[p] = "idle"
    /\ Position(p) # 0
    /\ LET previous_node_finished ==
               gluster_key_exists(files, dirExists,
                                  DoneKey(PreviousNode(p), NewVersion))
       IN  pc' = [pc EXCEPT ![p] =
                     IF previous_node_finished THEN "waited" ELSE "waiting"]
    /\ UNCHANGED <<now, dirExists, files, polls, pollAt, sleeps, wakeAt,
                   ioError, startStamp>>
    /\ UNCHANGED plannerVars
    /\ UNCHANGED hookVars

\* one pass of the while loop, lines 225-258.  A pass that sleeps ends with
\* the look for the done marker of line 254: it is taken when the sleep is
\* over, right before the next pass.
wait_poll(p) ==
    /\ pc[p] \in {"waiting", "sleeping"}
    /\ pc[p] = "sleeping" => now >= wakeAt[p]
    /\ IF /\ pc[p] = "sleeping"
          /\ gluster_key_exists(files, dirExists,
                                DoneKey(PreviousNode(p), NewVersion))
       THEN /\ pc' = [pc EXCEPT ![p] = "waited"]
            /\ UNCHANGED <<polls, pollAt, sleeps, wakeAt, ioError>>
       ELSE \E ioerror \in BOOLEAN, wait_time \in {MinSleep, MaxSleep - 1} :
              LET current_timestamp == now
                  previous_node_start_time ==
                      gluster_key_get(files, dirExists,
                                      StartKey(PreviousNode(p), NewVersion),
                                      ioerror)
                  d == wait_decision(previous_node_start_time,
                                     current_timestamp)
              IN  /\ ioerror =>
                        gluster_key_exists(files, dirExists,
                            StartKey(PreviousNode(p), NewVersion))
                  /\ d # "sleep" => wait_time = MinSleep
                  /\ ioError' = [ioError EXCEPT ![p] = ioerror]
                  /\ polls' = [polls EXCEPT ![p] = @ + 1]
                  /\ pollAt' = [pollAt EXCEPT ![p] = current_timestamp]
                  /\ pc' = [pc EXCEPT ![p] =
                               IF d = "raise" THEN "wait_raised"
                               ELSE IF d = "return" THEN "waited"
                               ELSE "sleeping"]
                  /\ sleeps' = [sleeps EXCEPT ![p] =
                                   IF d = "sleep" THEN @ + 1 ELSE @]
                  /\ wakeAt' = [wakeAt EXCEPT ![p] =
                                   IF d = "sleep" THEN now + wait_time ELSE @]
    /\ UNCHANGED <<now, dirExists, files, startStamp>>
    /\ UNCHANGED plannerVars
    /\ UNCHANGED hookVars

\* lock_and_roll lines 141-149: stamp the start marker, then upgrade_peer
\* begins.  Called by the first peer at once, by the others when
\* wait_on_previous_node has returned (roll_cluster lines 98-108).
lock_and_roll(p) ==
    /\ \/ pc[p] = "idle" /\ Position(p) = 0
       \/ pc[p] = "waited"
    /\ LET start_timestamp == now
           r == gluster_key_set(files, dirExists, StartKey(p, NewVersion),
                                start_timestamp)
       IN  /\ startStamp' = [startStamp EXCEPT ![p] = start_timestamp]
           /\ files' = r.files
           /\ pc' = [pc EXCEPT ![p] =
                        IF r.out.kind = "raise" THEN "lock_raised"
                        ELSE "rolling"]
    /\ UNCHANGED <<now, dirExists, polls, pollAt, sleeps, wakeAt, ioError>>
    /\ UNCHANGED plannerVars
    /\ UNCHANGED hookVars

\* lock_and_roll lines 150-158: upgrade_peer has returned, stamp the done
\* marker and return Ok
lock_and_roll_done(p) ==
    /\ pc[p] = "rolling"
    /\ LET stop_timestamp == now
           r == gluster_key_set(files, dirExists, DoneKey(p, NewVersion),
                                stop_timestamp)
       IN  /\ files' = r.files
           /\ pc' = [pc EXCEPT ![p] =
                        IF r.out.kind = "raise" THEN "lock_raised"
                        ELSE "rolled"]
    /\ UNCHANGED <<now, dirExists, polls, pollAt, sleeps, wakeAt, ioError,
                   startStamp>>
    /\ UNCHANGED plannerVars
    /\ UNCHANGED hookVars

NextUpgrade ==
    \/ Tick
    \/ \E p \in Peers : roll_cluster(p)
    \/ \E p \in Peers : wait_on_previous_node(p)
    \/ \E p \in Peers : wait_poll(p)
    \/ \E p \in Peers : lock_and_roll(p)
    \/ \E p \in Peers : lock_and_roll_done(p)

SpecUpgrade == InitUpgrade /\ [][NextUpgrade]_vars

\* ------------------------------------------------------------ upgrade gate
\* package versions as the dotted numbers they are written with
Versions == {<<3, 8, 0>>, <<3, 9, 0>>, <<3, 10, 0>>}

\* get_candidate_package_version: Ok(version), or Err on KeyError
NoCandidate == [found |-> FALSE]
Candidate(v) == [found |-> TRUE, version |-> v]

\* config["source"]: unset, or a source line
Sources == {"", "ppa:gluster/glusterfs-3.10"}

\* apt_pkg.version_compare(a, b): negative, zero or positive; the dotted
\* segments are compared as numbers, the first difference decides
RECURSIVE version_compare(_, _)
version_compare(a, b) ==
    IF a = <<>> /\ b = <<>> THEN 0
    ELSE IF a = <<>> THEN -1
    ELSE IF b = <<>> THEN 1
    ELSE IF Head(a) < Head(b) THEN -1
    ELSE IF Head(a) > Head(b) THEN 1
    ELSE version_compare(Tail(a), Tail(b))

\* a plausible slip: an equal candidate passes the gate too
check_for_upgrade_ge(c, uuid_found, info_parses) ==
    IF ~c.changed THEN [rolled |-> FALSE, out |-> Returned(Ok("unit"))]
    ELSE IF c.source = "" THEN [rolled |-> FALSE, out |-> Returned(Ok("unit"))]
    ELSE IF ~c.candidate.found
         THEN [rolled |-> FALSE,
               out |-> Returned(Err("Unable to find candidate"))]
    ELSE IF version_compare(c.candidate.version, c.installed) >= 0
         THEN [rolled |-> TRUE,
               out |-> roll_cluster_outcome(uuid_found, info_parses)]
    ELSE [rolled |-> FALSE, out |-> Returned(Ok("unit"))]

\* check_for_upgrade: whether roll_cluster was called, and how the call ends
check_for_upgrade(c, uuid_found, info_parses) ==
    IF ~c.changed THEN [rolled |-> FALSE, out |-> Returned(Ok("unit"))]
    ELSE IF c.source = "" THEN [rolled |-> FALSE, out |-> Returned(Ok("unit"))]
    ELSE IF ~c.candidate.found
         THEN [rolled |-> FALSE,
               out |-> Returned(Err("Unable to find candidate"))]
    ELSE IF version_compare(c.candidate.version, c.installed) > 0
         THEN [rolled |-> TRUE,
               out |-> roll_cluster_outcome(uuid_found, info_parses)]
    ELSE [rolled |-> FALSE, out |-> Returned(Ok("unit"))]

\* what check_for_upgrade reads: the config and the apt cache
GateConfs ==
    [changed : BOOLEAN, source : Sources,
     candidate : {NoCandidate} \cup {Candidate(v) : v \in Versions},
     installed : Versions]

InitGate ==
    /\ conf \in GateConfs
    /\ calls = <<>>
    /\ UnitIdle
    /\ dirExists \in BOOLEAN
    /\ files \in (IF dirExists THEN Stores ELSE {<<>>})
    /\ UpgradeIdle
    /\ peers = <<>>
    /\ volume = NoVolume
    /\ replicas = 3
    /\ op = "none"
    /\ result = None

\* the config-changed hook calls check_for_upgrade (main.py:99).  The call
\* of roll_cluster it may make ends before lock_and_roll
\* (roll_cluster_outcome): no marker is set, upgrade_peer is not reached.
CallCheckForUpgrade ==
    /\ op = "none"
    /\ op' = "check_for_upgrade"
    /\ \E uuid_found, info_parses \in BOOLEAN :
          result' = check_for_upgrade(conf, uuid_found, info_parses)
    /\ UNCHANGED <<peers, volume, replicas>>
    /\ UNCHANGED upgradeVars
    /\ UNCHANGED hookVars

NextGate == CallCheckForUpgrade

SpecGate == InitGate /\ [][NextGate]_vars

\* -------------------------------------------------------- peer readiness
\* peer.State
State == {"Connected", "Disconnected", "Unknown", "EstablishingConnection",
          "ProbeSentToPeer", "ProbeReceivedFromPeer", "PeerInCluster",
          "AcceptedPeerRequest", "SentAndReceivedPeerRequest",
          "PeerRejected", "PeerDetachInProgress", "ConnectedToPeer",
          "PeerIsConnectedAndAccepted", "InvalidState"}

\* peer.Peer as peer_status reports it
Peer(uuid, hostname, status) ==
    [uuid |-> uuid, hostname |-> hostname, status |-> status]

\* a plausible slip: any() for all()
peers_are_ready_any(peer_list) ==
    \E i \in 1..Len(peer_list) : peer_list[i].status = "Connected"

\* lib.peers_are_ready
peers_are_ready(peer_list) ==
    \A i \in 1..Len(peer_list) : peer_list[i].status = "Connected"

\* wait_for_peers gives up when iterations exceeds this
MaxIterations == 600

\* the peers never all connect
Never == MaxIterations + 1

\* peer_status() at the poll that follows the given number of sleeps: two
\* peers, the second still joining until the ready_at-th poll
peer_status(n, ready_at) ==
    <<Peer(1, 1, "Connected"),
      Peer(2, 2, IF n >= ready_at THEN "Connected"
                 ELSE "Disconnected")>>

\* wait_for_peers: the loop tests the peers after 0, 1, .. MaxIterations
\* sleeps and returns Ok at the first test that finds them ready; the
\* sleep that takes iterations past MaxIterations ends it with Err
wait_for_peers(ready_at) ==
    IF \E n \in 0..MaxIterations :
           peers_are_ready(peer_status(n, ready_at))
    THEN Ok("unit")
    ELSE Err("Gluster peers failed to connect after 10 minutes")

\* --------------------------------------------------------- volume lifecycle
\* config values are written as the characters of their text
DigitValue == ("0" :> 0) @@ ("1" :> 1) @@ ("2" :> 2) @@ ("3" :> 3)

RECURSIVE DecimalValue(_)
DecimalValue(s) ==
    IF s = <<>> THEN 0
    ELSE 10 * DecimalValue(SubSeq(s, 1, Len(s) - 1)) + DigitValue[s[Len(s)]]

\* int(s): the number a text of digits stands for, ValueError otherwise
int(s) ==
    IF s # <<>> /\ \A i \in 1..Len(s) : s[i] \in DOMAIN DigitValue
    THEN Returned(DecimalValue(s))
    ELSE Raised("ValueError")

\* get_brick_list lines 281-287: replicas = 3 unless int() parses
replication_level(replica_config) ==
    LET parsed == int(replica_config)
    IN  IF parsed.kind = "raise" THEN 3 ELSE parsed.value

\* volume.VolumeType: member name -> value
VolumeTypeValue ==
    [Arbiter |-> "arbiter",
     Distribute |-> "distribute",
     Stripe |-> "stripe",
     Replicate |-> "replicate",
     StripedAndReplicate |-> "stripd-replicate",
     Disperse |-> "disperse",
     DistributedAndStripe |-> "distributed-stripe",
     DistributedAndReplicate |-> "distributed-replicate",
     DistributedAndStripedAndReplicate |-> "distributed-striped-replicate",
     DistributedAndDisperse |-> "distributed-disperse"]

\* VolumeType(value): the member with this value, ValueError if there is none
VolumeType(value) ==
    IF \E t \in DOMAIN VolumeTypeValue : VolumeTypeValue[t] = value
    THEN Returned(CHOOSE t \in DOMAIN VolumeTypeValue :
                      VolumeTypeValue[t] = value)
    ELSE Raised("ValueError")

\* the cluster_type settings tried: every member's value, one written with
\* a capital, and the correct spelling of striped-replicate
ClusterTypeConfigs ==
    {VolumeTypeValue[t] : t \in DOMAIN VolumeTypeValue}
        \cup {"Replicate", "striped-replicate"}

\* str.lower() on these settings
lower(s) == IF s = "Replicate" THEN "replicate" ELSE s

\* Brick.__str__: "host:path"
BrickStr(b) == <<b.peer.hostname, ":", b.path>>

\* [str(b) for b in bricks]
BrickStrs(bricks) == [i \in 1..Len(bricks) |-> BrickStr(bricks[i])]

\* str(Transport.Tcp)
TransportTcp == "tcp"

\* the volume_create_* functions: the volume.create call each one makes
volume_create_distributed(vol, transport, bricks, force) ==
    [cmd |-> "create", volname |-> vol, volbricks |-> BrickStrs(bricks),
     transport |-> transport, force |-> force]

volume_create_striped(vol, stripe_count, transport, bricks, force) ==
    [cmd |-> "create", volname |-> vol, stripe |-> stripe_count,
     volbricks |-> BrickStrs(bricks), transport |-> transport,
     force |-> force]

volume_create_replicated(vol, replica_count, transport, bricks, force) ==
    [cmd |-> "create", volname |-> vol, volbricks |-> BrickStrs(bricks),
     replica |-> replica_count, transport |-> transport, force |-> force]

volume_create_arbiter(vol, replica_count, arbiter_count, transport, bricks, force) ==
    [cmd |-> "create", volname |-> vol, volbricks |-> BrickStrs(bricks),
     replica |-> replica_count, arbiter |-> arbiter_count, force |-> force,
     transport |-> transport]

volume_create_striped_replicated(vol, stripe_count, replica_count, transport, bricks, force) ==
    [cmd |-> "create", volname |-> vol, stripe |-> stripe_count,
     volbricks |-> BrickStrs(bricks), replica |-> replica_count,
     transport |-> transport, force |-> force]

volume_create_erasure(vol, disperse_count, redundancy_count, transport, bricks, force) ==
    [cmd |-> "create", volname |-> vol, disperse |-> disperse_count,
     redundancy |-> redundancy_count, volbricks |-> BrickStrs(bricks),
     transport |-> transport, force |-> force]

\* config("volume_name")
volume_name == "test"

\* a CLI call that was issued, and whether gluster carried it out
Issued(call, ok) == [call |-> call, ok |-> ok]

\* a call that was not reached
NotCalled == [called |-> FALSE]

\* a plausible slip: DistributedAndDisperse takes its disperse count from
\* replication_level, as Disperse does
create_call_replicas(cluster_type, rl, el, bricks) ==
    CASE cluster_type = "Distribute" ->
            volume_create_distributed(volume_name, TransportTcp, bricks, TRUE)
      [] cluster_type = "Stripe" ->
            volume_create_striped(volume_name, rl, TransportTcp, bricks, TRUE)
      [] cluster_type = "Replicate" ->
            volume_create_replicated(volume_name, rl, TransportTcp, bricks,
                                     TRUE)
      [] cluster_type = "Arbiter" ->
            volume_create_arbiter(volume_name, rl, el, TransportTcp, bricks,
                                  TRUE)
      [] cluster_type = "StripedAndReplicate" ->
            volume_create_striped_replicated(volume_name, el, rl,
                                             TransportTcp, bricks, TRUE)
      [] cluster_type = "Disperse" ->
            volume_create_erasure(volume_name, rl, el, TransportTcp, bricks,
                                  TRUE)
      [] cluster_type = "DistributedAndStripe" ->
            volume_create_striped(volume_name, rl, TransportTcp, bricks, TRUE)
      [] cluster_type = "DistributedAndReplicate" ->
            volume_create_replicated(volume_name, rl, TransportTcp, bricks,
                                     TRUE)
      [] cluster_type = "DistributedAndStripedAndReplicate" ->
            volume_create_striped_replicated(volume_name, el, rl,
                                             TransportTcp, bricks, TRUE)
      [] cluster_type = "DistributedAndDisperse" ->
            volume_create_erasure(volume_name, rl, None, TransportTcp,
                                  bricks, TRUE)

\* create_volume lines 225-291: the constructor called for the cluster
\* type; rl is replication_level, el is extra_level
create_call(cluster_type, rl, el, bricks) ==
    CASE cluster_type = "Distribute" ->
            volume_create_distributed(volume_name, TransportTcp, bricks, TRUE)
      [] cluster_type = "Stripe" ->
            volume_create_striped(volume_name, rl, TransportTcp, bricks, TRUE)
      [] cluster_type = "Replicate" ->
            volume_create_replicated(volume_name, rl, TransportTcp, bricks,
                                     TRUE)
      [] cluster_type = "Arbiter" ->
            volume_create_arbiter(volume_name, rl, el, TransportTcp, bricks,
                                  TRUE)
      [] cluster_type = "StripedAndReplicate" ->
            volume_create_striped_replicated(volume_name, el, rl,
                                             TransportTcp, bricks, TRUE)
      [] cluster_type = "Disperse" ->
            volume_create_erasure(volume_name, rl, el, TransportTcp, bricks,
                                  TRUE)
      [] cluster_type = "DistributedAndStripe" ->
            volume_create_striped(volume_name, rl, TransportTcp, bricks, TRUE)
      [] cluster_type = "DistributedAndReplicate" ->
            volume_create_replicated(volume_name, rl, TransportTcp, bricks,
                                     TRUE)
      [] cluster_type = "DistributedAndStripedAndReplicate" ->
            volume_create_striped_replicated(volume_name, el, rl,
                                             TransportTcp, bricks, TRUE)
      [] cluster_type = "DistributedAndDisperse" ->
            volume_create_erasure(volume_name, el, None, TransportTcp,
                                  bricks, TRUE)

\* a plausible slip: the result of the create call is not looked at
create_result_created(create_ok) == Returned(Ok("Created"))

\* create_volume lines 292-297
create_result(create_ok) ==
    IF ~create_ok THEN Returned(Err("FailedToCreate"))
    ELSE Returned(Ok("Created"))

\* create_volume: how it ends, the result of wait_for_peers (which line 203
\* drops) and the CLI calls issued
create_volume(c, ps, volume_info, create_ok) ==
    LET cluster_type == VolumeType(lower(c.cluster_type))
        rl == int(c.replication_level)
        el == int(c.extra_level)
        brick_list ==
            get_brick_list(ps, volume_info,
                           replication_level(c.replication_level))
    IN  IF cluster_type.kind = "raise"
        THEN [out |-> cluster_type, waited |-> NotCalled, calls |-> <<>>]
        ELSE IF rl.kind = "raise"
        THEN [out |-> rl, waited |-> NotCalled, calls |-> <<>>]
        ELSE IF el.kind = "raise"
        THEN [out |-> el, waited |-> NotCalled, calls |-> <<>>]
        ELSE IF ~brick_list.ok
        THEN [out |-> IF brick_list.value = "WaitForMorePeers"
                      THEN Returned(Ok("WaitForMorePeers"))
                      ELSE IF brick_list.value = "InvalidConfig"
                      THEN Returned(Err(brick_list.value))
                      ELSE Returned(Err("Unknown error in create volume")),
              waited |-> wait_for_peers(c.ready_at),
              calls |-> <<>>]
        ELSE [out |-> create_result(create_ok),
              waited |-> wait_for_peers(c.ready_at),
              calls |-> <<Issued(create_call(cluster_type.value, rl.value,
                                             el.value, brick_list.value),
                                 create_ok)>>]

\* gluster.cli.volume.start(volume_name, False)
volume_start_call(vol_name, force) ==
    [cmd |-> "start", volname |-> vol_name, force |-> force]

\* start_gluster_volume: Ok(()) or, after the except branch, None
start_gluster_volume(start_ok) == IF start_ok THEN Ok("unit") ELSE None

\* create_gluster_volume
create_gluster_volume(c, ps, create_ok, start_ok) ==
    LET create_vol == create_volume(c, ps, NoVolume, create_ok)
    IN  IF create_vol.out.kind = "raise" THEN create_vol
        ELSE IF create_vol.out.value.ok
        THEN IF create_vol.out.value.value = "Created"
             THEN \* start_gluster_volume is called, its result dropped
                  [out |-> Returned(Ok("Created")),
                   waited |-> create_vol.waited,
                   calls |-> create_vol.calls \o
                       <<Issued(volume_start_call(volume_name, FALSE),
                                start_ok)>>]
             ELSE IF create_vol.out.value.value = "WaitForMorePeers"
             THEN [create_vol EXCEPT
                      !.out = Returned(Ok("WaitForMorePeers"))]
             ELSE [create_vol EXCEPT !.out = Returned(Ok("unit"))]
        ELSE [create_vol EXCEPT
                 !.out = Returned(Err(create_vol.out.value.value))]

\* create_gluster_volume line 167: set_state("volume.started") on the way
\* to return Ok(Status.Created)
create_gluster_volume_flags(r) ==
    IF r.out.kind = "return" /\ r.out.value = Ok("Created")
    THEN {"volume.started"}
    ELSE {}

\* volume_add_brick: the bricks.add call
volume_add_brick(vol, brick_list, force) ==
    [cmd |-> "add-brick", volume |-> vol, bricks |-> brick_list,
     force |-> force]

\* a plausible slip: a failed add-brick call still counts as an expansion
add_brick_result_expanded(add_ok) == Returned(Ok("Expanded"))

\* expand_volume lines 360-364
add_brick_result(add_ok) ==
    IF add_ok THEN Returned(Ok("Expanded"))
    ELSE Returned(Err("Adding brick to volume failed"))

\* expand_volume
expand_volume(c, ps, vol_info, add_ok) ==
    LET brick_list ==
            get_brick_list(ps, vol_info,
                           replication_level(c.replication_level))
    IN  IF brick_list.ok
        THEN IF brick_list.value # <<>>
             THEN [out |-> add_brick_result(add_ok),
                   calls |-> <<Issued(volume_add_brick(volume_name,
                                                       brick_list.value,
                                                       TRUE),
                                      add_ok)>>]
             ELSE [out |-> Returned(Ok("InvalidConfig")), calls |-> <<>>]
        ELSE [out |-> IF brick_list.value = "WaitForMorePeers"
                      THEN Returned(Ok("WaitForMorePeers"))
                      ELSE IF brick_list.value = "InvalidConfig"
                      THEN Returned(Err(brick_list.value))
                      ELSE Returned(Err("Unknown error in expand volume")),
              calls |-> <<>>]

\* volume_remove_brick: the bricks.remove_start call
volume_remove_brick(vol, brick_list, force) ==
    [cmd |-> "remove-brick", volume |-> vol, bricks |-> brick_list,
     force |-> force]

\* get_brick_list handed a list of Peer objects where it expects the peer
\* map (shrink_volume line 426).  Without a volume the length test still
\* works and brick_and_server_product then asks the list for keys(); with
\* a volume find_new_peers indexes the list with a Peer (lib.py:203, 207).
get_brick_list_of_list(peer_list, vol, reps) ==
    IF vol = NoVolume
    THEN IF Len(peer_list) < reps
         THEN Returned(Err("WaitForMorePeers"))
         ELSE Raised("AttributeError")
    ELSE Raised("TypeError")

\* shrink_volume
shrink_volume(c, peer, vol_info) ==
    LET brick_list ==
            get_brick_list_of_list(<<peer>>, vol_info,
                                   replication_level(c.replication_level))
    IN  IF brick_list.kind = "raise"
        THEN [out |-> brick_list, calls |-> <<>>]
        ELSE IF brick_list.value.ok
        THEN [out |-> Returned(None),
              calls |-> <<Issued(volume_remove_brick(volume_name,
                                                     brick_list.value.value,
                                                     TRUE),
                                 TRUE)>>]
        ELSE [out |-> IF brick_list.value.value = "WaitForMorePeers"
                      THEN Returned(Ok(0))
                      ELSE IF brick_list.value.value = "InvalidConfig"
                      THEN Returned(Err(brick_list.value.value))
                      ELSE Returned(Err("Unknown error in shrink volume")),
              calls |-> <<>>]

\* ---------------------------------------------------- volume lifecycle steps
\* peer maps of n units with d devices each, unit i at address i
LifecyclePeerMaps ==
    {[i \in 1..n |-> [unit |-> i, address |-> i, bricks |-> [k \in 1..d |-> k]]] :
        n \in 1..MaxPeers, d \in 0..MaxDev}

\* the volume found by volume_info: none, or one served by the first hosts
LifecycleVolumes == {NoVolume} \cup {VolumeOf(1..k) : k \in 1..MaxVolHosts}

\* replication_level and extra_level settings: numbers, and a text that is
\* not a number
ReplicationLevels == {<<"1">>, <<"2">>, <<"x">>}
ExtraLevels == {<<"1">>, <<"x">>}

\* the charm configuration create_volume reads, and the poll at which the
\* peers of the cluster are all connected
VolumeConfs ==
    [cluster_type : ClusterTypeConfigs,
     replication_level : ReplicationLevels,
     extra_level : ExtraLevels,
     ready_at : {0, Never}]

InitVolume ==
    /\ conf \in VolumeConfs
    /\ calls = <<>>
    /\ UnitIdle
    /\ peers \in LifecyclePeerMaps
    /\ volume \in LifecycleVolumes
    /\ replicas = 3
    /\ op = "none"
    /\ result = None
    /\ dirExists = FALSE
    /\ files = <<>>
    /\ UpgradeIdle

CallCreateVolume ==
    /\ op = "none"
    /\ op' = "create_volume"
    /\ \E create_ok \in BOOLEAN :
          LET r == create_volume(conf, peers, volume, create_ok)
          IN  /\ result' = [out |-> r.out, waited |-> r.waited]
              /\ calls' = r.calls
    /\ UNCHANGED <<peers, volume, replicas, conf>>
    /\ UNCHANGED unitVars
    /\ UNCHANGED upgradeVars

\* initialize_volume calls create_gluster_volume when there is no volume
CallCreateGlusterVolume ==
    /\ op = "none"
    /\ volume = NoVolume
    /\ op' = "create_gluster_volume"
    /\ \E create_ok, start_ok \in BOOLEAN :
          LET r == create_gluster_volume(conf, peers, create_ok, start_ok)
          IN  /\ result' = [out |-> r.out, waited |-> r.waited]
              /\ calls' = r.calls
              /\ flags' = flags \cup create_gluster_volume_flags(r)
    /\ UNCHANGED <<peers, volume, replicas, conf>>
    /\ UNCHANGED <<iterations, slept, settings>>
    /\ UNCHANGED upgradeVars

CallExpandVolume ==
    /\ op = "none"
    /\ op' = "expand_volume"
    /\ \E add_ok \in BOOLEAN :
          LET r == expand_volume(conf, peers, volume, add_ok)
          IN  /\ result' = [out |-> r.out]
              /\ calls' = r.calls
    /\ UNCHANGED <<peers, volume, replicas, conf>>
    /\ UNCHANGED unitVars
    /\ UNCHANGED upgradeVars

\* shrink_volume for a departing peer at one of the host addresses
CallShrinkVolume ==
    /\ op = "none"
    /\ op' = "shrink_volume"
    /\ \E h \in Hosts :
          LET peer == Peer(h, h, "Connected")
              r == shrink_volume(conf, peer, volume)
          IN  /\ result' = [out |-> r.out, peer |-> peer]
              /\ calls' = r.calls
    /\ UNCHANGED <<peers, volume, replicas, conf>>
    /\ UNCHANGED unitVars
    /\ UNCHANGED upgradeVars

NextVolume ==
    \/ CallCreateVolume
    \/ CallCreateGlusterVolume
    \/ CallExpandVolume
    \/ CallShrinkVolume

SpecVolume == InitVolume /\ [][NextVolume]_vars

\* ------------------------------------------------------ peer readiness steps
MaxListed == 2

\* the peer lists peer_status may report: up to max peers, each in any
\* state, or with no state
PeerLists(max) ==
    UNION {{[i \in 1..n |-> Peer(i, i, st[i])] :
              st \in [1..n -> State \cup {None}]} : n \in 0..max}

InitPeers ==
    /\ conf \in [peer_list : PeerLists(MaxListed)]
    /\ calls = <<>>
    /\ UnitIdle
    /\ peers = <<>>
    /\ volume = NoVolume
    /\ replicas = 3
    /\ op = "none"
    /\ result = None
    /\ dirExists = FALSE
    /\ files = <<>>
    /\ UpgradeIdle

CallPeersAreReady ==
    /\ op = "none"
    /\ op' = "peers_are_ready"
    /\ result' = peers_are_ready(conf.peer_list)
    /\ UNCHANGED <<peers, volume, replicas>>
    /\ UNCHANGED upgradeVars
    /\ UNCHANGED hookVars

NextPeers == CallPeersAreReady

SpecPeers == InitPeers /\ [][NextPeers]_vars

\* ------------------------------------------------------- wait_for_peers loop
\* the polls at which the environment lets the last peer connect: at once,
\* after one sleep, at the last poll the loop makes, never
ReadyAts == {0, 1, MaxIterations - 1, MaxIterations, Never}

InitWait ==
    /\ conf \in [ready_at : ReadyAts]
    /\ calls = <<>>
    /\ UnitIdle
    /\ peers = <<>>
    /\ volume = NoVolume
    /\ replicas = 3
    /\ op = "none"
    /\ result = None
    /\ dirExists = FALSE
    /\ files = <<>>
    /\ UpgradeIdle

\* wait_for_peers is entered: iterations = 0
CallWaitForPeers ==
    /\ op = "none"
    /\ op' = "wait_for_peers"
    /\ iterations' = 0
    /\ slept' = 0
    /\ UNCHANGED <<peers, volume, replicas, result, conf, calls, flags,
                   settings>>
    /\ UNCHANGED upgradeVars

\* one pass of the while loop: the test of peers_are_ready(peer_status()),
\* and when it fails the sleep, the increment and the test of the counter;
\* op becomes "wait_for_peers returned" when the pass leaves the function
wait_for_peers_pass ==
    /\ op = "wait_for_peers"
    /\ IF peers_are_ready(peer_status(iterations, conf.ready_at))
       THEN /\ result' = Ok("unit")
            /\ op' = "wait_for_peers returned"
            /\ UNCHANGED <<iterations, slept>>
       ELSE /\ slept' = slept + 1
            /\ iterations' = iterations + 1
            /\ IF iterations + 1 > MaxIterations
               THEN /\ result' = Err("Gluster peers failed to connect after 10 minutes")
                    /\ op' = "wait_for_peers returned"
               ELSE UNCHANGED <<op, result>>
    /\ UNCHANGED <<peers, volume, replicas, conf, calls, flags, settings>>
    /\ UNCHANGED upgradeVars

NextWait ==
    \/ CallWaitForPeers
    \/ wait_for_peers_pass

SpecWait == InitWait /\ [][NextWait]_vars

\* ------------------------------------------------------------ peer.State
\* the value of each member of peer.State, a text being the sequence of
\* its characters
StateValue ==
    [Connected |->
         <<"c", "o", "n", "n", "e", "c", "t", "e", "d">>,
     Disconnected |->
         <<"d", "i", "s", "c", "o", "n", "n", "e", "c", "t", "e", "d">>,
     Unknown |->
         <<>>,
     EstablishingConnection |->
         <<"e", "s", "t", "a", "b", "l", "i", "s", "h", "i", "n",
           "g", " ", "c", "o", "n", "n", "e", "c", "t", "i", "o", "n">>,
     ProbeSentToPeer |->
         <<"p", "r", "o", "b", "e", " ", "s", "e", "n", "t", " ",
           "t", "o", " ", "p", "e", "e", "r">>,
     ProbeReceivedFromPeer |->
         <<"p", "r", "o", "b", "e", " ", "r", "e", "c", "e", "i",
           "v", "e", "d", " ", "f", "r", "o", "m", " ", "p", "e",
           "e", "r">>,
     PeerInCluster |->
         <<"p", "e", "e", "r", " ", "i", "n", " ", "c", "l", "u",
           "s", "t", "e", "r">>,
     AcceptedPeerRequest |->
         <<"a", "c", "c", "e", "p", "t", "e", "d", " ", "p", "e",
           "e", "r", " ", "i", "n", " ", "c", "l", "u", "s", "t",
           "e", "r">>,
     SentAndReceivedPeerRequest |->
         <<"s", "e", "n", "t", " ", "a", "n", "d", " ", "r", "e",
           "c", "e", "i", "v", "e", "d", " ", "p", "e", "e", "r",
           " ", "r", "e", "q", "u", "e", "s", "t">>,
     PeerRejected |->
         <<"p", "e", "e", "r", " ", "r", "e", "j", "e", "c", "t",
           "e", "d">>,
     PeerDetachInProgress |->
         <<"p", "e", "e", "r", " ", "d", "e", "t", "a", "c", "h",
           " ", "i", "n", " ", "p", "r", "o", "g", "r", "e", "s", "s">>,
     ConnectedToPeer |->
         <<"c", "o", "n", "n", "e", "c", "t", "e", "d", " ", "t",
           "o", " ", "p", "e", "e", "r">>,
     PeerIsConnectedAndAccepted |->
         <<"p", "e", "e", "r", " ", "i", "s", " ", "c", "o", "n",
           "n", "e", "c", "t", "e", "d", " ", "a", "n", "d", " ",
           "a", "c", "c", "e", "p", "t", "e", "d">>,
     InvalidState |->
         <<"i", "n", "v", "a", "l", "i", "d", " ", "s", "t", "a",
           "t", "e">>]

\* the capital letters and their small forms
LowerOf ==
    ("A" :> "a") @@ ("B" :> "b") @@ ("C" :> "c") @@ ("D" :> "d") @@
    ("E" :> "e") @@ ("F" :> "f") @@ ("G" :> "g") @@ ("H" :> "h") @@
    ("I" :> "i") @@ ("J" :> "j") @@ ("K" :> "k") @@ ("L" :> "l") @@
    ("M" :> "m") @@ ("N" :> "n") @@ ("O" :> "o") @@ ("P" :> "p") @@
    ("Q" :> "q") @@ ("R" :> "r") @@ ("S" :> "s") @@ ("T" :> "t") @@
    ("U" :> "u") @@ ("V" :> "v") @@ ("W" :> "w") @@ ("X" :> "x") @@
    ("Y" :> "y") @@ ("Z" :> "z")

UpperOf ==
    ("a" :> "A") @@ ("b" :> "B") @@ ("c" :> "C") @@ ("d" :> "D") @@
    ("e" :> "E") @@ ("f" :> "F") @@ ("g" :> "G") @@ ("h" :> "H") @@
    ("i" :> "I") @@ ("j" :> "J") @@ ("k" :> "K") @@ ("l" :> "L") @@
    ("m" :> "M") @@ ("n" :> "N") @@ ("o" :> "O") @@ ("p" :> "P") @@
    ("q" :> "Q") @@ ("r" :> "R") @@ ("s" :> "S") @@ ("t" :> "T") @@
    ("u" :> "U") @@ ("v" :> "V") @@ ("w" :> "W") @@ ("x" :> "X") @@
    ("y" :> "Y") @@ ("z" :> "Z")

\* str.lower()
str_lower(s) ==
    [i \in 1..Len(s) |->
        IF s[i] \in DOMAIN LowerOf THEN LowerOf[s[i]] ELSE s[i]]

\* str.upper()
str_upper(s) ==
    [i \in 1..Len(s) |->
        IF s[i] \in DOMAIN UpperOf THEN UpperOf[s[i]] ELSE s[i]]

\* State.from_str: the member whose value matches the string when both are
\* lowered; an empty string is false and is never compared
from_str(string) ==
    IF string # <<>> /\ \E state \in DOMAIN StateValue :
           str_lower(StateValue[state]) = str_lower(string)
    THEN Returned(CHOOSE state \in DOMAIN StateValue :
                      str_lower(StateValue[state]) = str_lower(string))
    ELSE Raised("ValueError")

\* the strings parsed: every member's value as it is, in capitals, with a
\* leading capital and with the last letter a capital, and texts that are
\* the value of no member
StateStrings ==
    UNION {{StateValue[m], str_upper(StateValue[m]),
            [i \in 1..Len(StateValue[m]) |->
                IF i = 1 THEN str_upper(StateValue[m])[i]
                ELSE StateValue[m][i]],
            [i \in 1..Len(StateValue[m]) |->
                IF i = Len(StateValue[m]) THEN str_upper(StateValue[m])[i]
                ELSE StateValue[m][i]]} : m \in DOMAIN StateValue}
      \cup {<<" ">>, <<"u", "n", "k", "n", "o", "w", "n">>,
            <<"c", "o", "n", "n", "e", "c", "t">>,
            <<"c", "o", "n", "n", "e", "c", "t", "e", "d", " ">>,
            <<" ", "c", "o", "n", "n", "e", "c", "t", "e", "d">>,
            <<"p", "e", "e", "r">>, <<"N", "o", "n", "e">>,
            <<"c", "o", "n", "n", "e", "c", "t", "e", "d", "d">>,
            <<"i", "n", "v", "a", "l", "i", "d">>}

InitState ==
    /\ conf \in [string : StateStrings]
    /\ calls = <<>>
    /\ UnitIdle
    /\ peers = <<>>
    /\ volume = NoVolume
    /\ replicas = 3
    /\ op = "none"
    /\ result = None
    /\ dirExists = FALSE
    /\ files = <<>>
    /\ UpgradeIdle

CallFromStr ==
    /\ op = "none"
    /\ op' = "from_str"
    /\ result' = from_str(conf.string)
    /\ UNCHANGED <<peers, volume, replicas>>
    /\ UNCHANGED upgradeVars
    /\ UNCHANGED hookVars

NextState == CallFromStr

SpecState == InitState /\ [][NextState]_vars

\* ---------------------------------------------------------------- peer_probe
\* a Python str, and the ipaddress.IPv4Address that resolve_to_ip returns:
\* values of different types, never equal to each other
Str(h) == [type |-> "str", value |-> h]
IPv4Address(h) == [type |-> "IPv4Address", value |-> h]

\* the texts "Connected" and "Disconnected" of gluster pool list
ConnectedText == <<"C", "o", "n", "n", "e", "c", "t", "e", "d">>
DisconnectedText ==
    <<"D", "i", "s", "c", "o", "n", "n", "e", "c", "t", "e", "d">>

\* peer_list stopped by an exception at entry i of the pool: here the state
\* text of a resolved entry does not parse
peer_list_raises(pool_list, i) ==
    /\ pool_list[i].resolves
    /\ from_str(pool_list[i].connected).kind = "raise"

\* peer.peer_list: gpeer.pool(), then one Peer for every entry whose
\* hostname resolves, the hostname of the Peer being resolve_to_ip's
\* parsed address; GlusterCmdOutputParseError and ValueError pass through
peer_list(pool) ==
    IF pool.kind = "raise" THEN pool
    ELSE IF \E i \in 1..Len(pool.value) : peer_list_raises(pool.value, i)
    THEN Raised("ValueError")
    ELSE LET resolved == SelectSeq(pool.value, LAMBDA value : value.resolves)
         IN  Returned([i \in 1..Len(resolved) |->
                 Peer(resolved[i].uuid, IPv4Address(resolved[i].hostname),
                      from_str(resolved[i].connected).value)])

\* gpeer.probe(hostname) as a CLI call
probe_call(hostname) == [cmd |-> "probe", hostname |-> hostname]

\* peer.peer_probe: returns without a probe when a peer of peer_list() has
\* the hostname, probes otherwise; out is what the caller gets, calls the
\* CLI calls made
peer_probe(hostname, pool, probe_ok) ==
    LET current_peers == peer_list(pool)
    IN  IF current_peers.kind = "raise"
        THEN [out |-> current_peers, calls |-> <<>>]
        ELSE IF \E i \in 1..Len(current_peers.value) :
                    current_peers.value[i].hostname = hostname
        THEN [out |-> Returned(None), calls |-> <<>>]
        ELSE [out |-> IF probe_ok THEN Returned(None)
                      ELSE Raised("GlusterCmdException"),
              calls |-> <<Issued(probe_call(hostname), probe_ok)>>]

\* what gluster pool list may answer: up to max entries, each with a
\* hostname that resolves or not and a state text
PoolLists(max) ==
    UNION {{[i \in 1..n |->
                [uuid |-> i, hostname |-> h[i], resolves |-> r[i],
                 connected |-> c[i]]] :
              h \in [1..n -> Hosts], r \in [1..n -> BOOLEAN],
              c \in [1..n -> {ConnectedText, DisconnectedText, <<>>}]}
           : n \in 0..max}

\* gpeer.pool(): the list, or GlusterCmdOutputParseError when the output of
\* the command does not parse
gpeer_pool(c) ==
    IF c.parses THEN Returned(c.pool)
    ELSE Raised("GlusterCmdOutputParseError")

InitProbe ==
    /\ conf \in [pool : PoolLists(MaxListed), parses : BOOLEAN]
    /\ calls = <<>>
    /\ UnitIdle
    /\ peers = <<>>
    /\ volume = NoVolume
    /\ replicas = 3
    /\ op = "none"
    /\ result = None
    /\ dirExists = FALSE
    /\ files = <<>>
    /\ UpgradeIdle

\* peer_probe(hostname) with an address of the relation data, a str
CallPeerProbe ==
    /\ op = "none"
    /\ op' = "peer_probe"
    /\ \E h \in Hosts, probe_ok \in BOOLEAN :
           LET r == peer_probe(Str(h), gpeer_pool(conf), probe_ok)
           IN  /\ result' = [out |-> r.out, hostname |-> h]
               /\ calls' = r.calls
    /\ UNCHANGED <<peers, volume, replicas, conf>>
    /\ UNCHANGED unitVars
    /\ UNCHANGED upgradeVars

NextProbe == CallPeerProbe

SpecProbe == InitProbe /\ [][NextProbe]_vars

\* --------------------------------------------------------- initialize_volume
\* volume_info(vol_name) as initialize_volume sees it: the list of the
\* volumes found, or the exception of the command
volume_info(vol, info_outcome) ==
    IF info_outcome # "ok" THEN Raised(info_outcome)
    ELSE IF vol = NoVolume THEN Returned(<<>>)
    ELSE Returned(<<vol>>)

\* a plausible slip: the test of create_result.value is left out
created_flag_ok(created) ==
    IF created.ok THEN {"volume.created"} ELSE {}

\* initialize_volume lines 135-137: set_state("volume.created")
created_flag(created) ==
    IF created.ok /\ created.value = "Created"
    THEN {"volume.created"}
    ELSE {}

\* nothing was done: no CLI call, no flag
Idle(out) == [out |-> out, calls |-> <<>>, flags |-> {}]

\* initialize_volume: out is how the handler ended, calls the CLI calls it
\* made, flags the flags it set
initialize_volume(c, ps, vol, leader, info_outcome, create_ok, start_ok) ==
    IF ~leader THEN Idle(Returned(None))
    ELSE LET vol_info == volume_info(vol, info_outcome)
         IN  IF vol_info.kind = "raise"
             THEN IF vol_info.value = "GlusterCmdException"
                  THEN Idle(Returned(None))
                  ELSE Idle(vol_info)
             ELSE IF vol_info.value # <<>> THEN Idle(Returned(None))
             ELSE LET created ==
                          create_gluster_volume(c, ps, create_ok, start_ok)
                  IN  IF created.out.kind = "raise"
                      THEN [out |-> created.out,
                            calls |-> created.calls,
                            flags |-> {}]
                      ELSE [out |-> Returned(None),
                            calls |-> created.calls,
                            flags |->
                               create_gluster_volume_flags(created)
                               \cup created_flag(created.out.value)]

\* the volume of the cluster after the CLI calls: a create call that
\* succeeded has made the volume of its bricks
volume_after(vol, ps, cs) ==
    IF \E i \in 1..Len(cs) : cs[i].call.cmd = "create" /\ cs[i].ok
    THEN [bricks |-> brick_and_server_product(ps)]
    ELSE vol

\* the settings of the unit: two volume types, replication levels that
\* parse or not, peers that connect or not
UnitConfs ==
    [cluster_type : {"replicate", "stripe"},
     replication_level : ReplicationLevels,
     extra_level : {<<"1">>},
     ready_at : {0, Never}]

InitInitialize ==
    /\ conf \in UnitConfs
    /\ calls = <<>>
    /\ UnitIdle
    /\ peers \in LifecyclePeerMaps
    /\ volume \in {NoVolume, VolumeOf(1..1)}
    /\ replicas = 3
    /\ op = "none"
    /\ result = None
    /\ dirExists = FALSE
    /\ files = <<>>
    /\ UpgradeIdle

\* one invocation of the handler: @when_not("volume.created") keeps it from
\* running once the flag is set; the unit leads or not, volume_info answers
\* or fails, the create and start commands succeed or fail
CallInitializeVolume ==
    /\ "volume.created" \notin flags
    /\ op' = "initialize_volume"
    /\ \E leader, create_ok, start_ok \in BOOLEAN :
       \E info_outcome \in {"ok", "GlusterCmdException",
                            "GlusterCmdOutputParseError"} :
          LET r == initialize_volume(conf, peers, volume, leader,
                                     info_outcome, create_ok, start_ok)
          IN  /\ result' = [out |-> r.out, is_leader |-> leader,
                            info |-> info_outcome]
              /\ calls' = r.calls
              /\ flags' = flags \cup r.flags
              /\ volume' = volume_after(volume, peers, r.calls)
    /\ UNCHANGED <<peers, replicas, conf, iterations, slept, settings>>
    /\ UNCHANGED upgradeVars

NextInitialize == CallInitializeVolume

SpecInitialize == InitInitialize /\ [][NextInitialize]_vars

\* ---------------------------------------------------------- server_connected
\* json.dumps(probed_units): the list as a text
json_dumps(probed_units) == [type |-> "str", json |-> probed_units]

\* hookenv.leader_get('probed-units'): the stored text, None when the key
\* was never set
leader_get(stored) ==
    IF "probed_units" \in DOMAIN stored THEN stored.probed_units
    ELSE [type |-> "NoneType", json |-> <<>>]

\* server_connected lines 572-578: probed_units = [] unless leader_get gave
\* a text, then json.loads of it
loaded_probed_units(stored) ==
    LET p == leader_get(stored)
    IN  IF p.type = "str" THEN p.json ELSE <<>>

\* a plausible slip: the unit is appended whether the probe raised or not
probed_units_after_always(probed_units, unit, probe_out) ==
    Append(probed_units, unit)

\* lines 589-594: probed_units.append(unit) is skipped when peer_probe raised
probed_units_after(probed_units, unit, probe_out) ==
    IF probe_out.kind = "return" THEN Append(probed_units, unit)
    ELSE probed_units

\* the for loop of lines 582-595 from entry i of peer_info on; env[i] is
\* what gluster pool list and gluster peer probe answer for entry i.
\* GlusterCmdException and GlusterCmdOutputParseError are caught and the
\* loop goes on, any other exception leaves the handler.
RECURSIVE ProbeLoop(_, _, _, _, _, _)
ProbeLoop(ps, i, probed_units, env, attempted, cs) ==
    IF i > Len(ps)
    THEN [out |-> Returned(None), probed_units |-> probed_units,
          attempted |-> attempted, calls |-> cs]
    ELSE IF \E k \in 1..Len(probed_units) : probed_units[k] = ps[i].unit
    THEN ProbeLoop(ps, i + 1, probed_units, env, attempted, cs)
    ELSE LET r == peer_probe(Str(ps[i].address), gpeer_pool(env[i]),
                             env[i].probe_ok)
         IN  IF /\ r.out.kind = "raise"
                /\ r.out.value \notin {"GlusterCmdException",
                                       "GlusterCmdOutputParseError"}
             THEN [out |-> r.out, probed_units |-> probed_units,
                   attempted |-> Append(attempted, ps[i].unit),
                   calls |-> cs \o r.calls]
             ELSE ProbeLoop(ps, i + 1,
                            probed_units_after(probed_units, ps[i].unit,
                                               r.out),
                            env, Append(attempted, ps[i].unit),
                            cs \o r.calls)

\* server_connected: a unit that is not the leader returns before the
\* probing; the leader probes and then stores the list with leader_set,
\* which an exception that leaves the loop does not reach
server_connected(ps, leader, stored, env) ==
    IF ~leader
    THEN [out |-> Returned(None), attempted |-> <<>>, calls |-> <<>>,
          settings |-> stored]
    ELSE LET r == ProbeLoop(ps, 1, loaded_probed_units(stored), env,
                            <<>>, <<>>)
         IN  [out |-> r.out, attempted |-> r.attempted, calls |-> r.calls,
              settings |->
                  IF r.out.kind = "raise" THEN stored
                  ELSE [probed_units |-> json_dumps(r.probed_units)]]

\* what the cluster may answer while a host is probed: an empty pool and a
\* probe that succeeds, the host already listed, a probe that fails, the
\* host listed with a state text that does not parse, a pool output that
\* does not parse
AnswerKinds ==
    {"new", "listed", "probe fails", "state unparsable", "pool unparsable"}

ProbeAnswer(kind, address) ==
    [pool |->
        IF kind = "listed"
        THEN <<[uuid |-> 1, hostname |-> address, resolves |-> TRUE,
                connected |-> ConnectedText]>>
        ELSE IF kind = "state unparsable"
        THEN <<[uuid |-> 1, hostname |-> address, resolves |-> TRUE,
                connected |-> <<>>]>>
        ELSE <<>>,
     parses |-> kind # "pool unparsable",
     probe_ok |-> kind \in {"new", "listed"}]

\* peer.get_peer_info(): up to MaxPeers units, unit i at address i, one
\* device each
ConnectedPeerMaps ==
    {[i \in 1..n |-> [unit |-> i, address |-> i, bricks |-> <<1>>]] :
        n \in 1..MaxPeers}

InitConnected ==
    /\ conf = [unset |-> TRUE]
    /\ calls = <<>>
    /\ UnitIdle
    /\ peers \in ConnectedPeerMaps
    /\ volume = NoVolume
    /\ replicas = 3
    /\ op = "none"
    /\ result = None
    /\ dirExists = FALSE
    /\ files = <<>>
    /\ UpgradeIdle

\* one invocation of the handler, on the leader or not; the cluster is
\* asked only about the units the handler probes
CallServerConnected ==
    /\ op' = "server_connected"
    /\ \E leader \in BOOLEAN :
       \E kinds \in [1..Len(peers) -> AnswerKinds] :
          /\ \A i \in 1..Len(peers) :
                 (\/ ~leader
                  \/ \E k \in 1..Len(loaded_probed_units(settings)) :
                         loaded_probed_units(settings)[k] = peers[i].unit)
                     => kinds[i] = "new"
          /\ LET env == [i \in 1..Len(peers) |->
                            ProbeAnswer(kinds[i], peers[i].address)]
                 r == server_connected(peers, leader, settings, env)
             IN  /\ result' = [out |-> r.out, is_leader |-> leader,
                               attempted |-> r.attempted]
                 /\ calls' = r.calls
                 /\ settings' = r.settings
    /\ UNCHANGED <<peers, volume, replicas, conf, iterations, slept, flags>>
    /\ UNCHANGED upgradeVars

NextConnected == CallServerConnected

SpecConnected == InitConnected /\ [][NextConnected]_vars

\* ======================================================== planner claims
\* the smallest device count over the first n entries of a peer map
MinDevices(ps, n) ==
    CHOOSE m \in 0..MaxDev + 1 :
        /\ \A i \in 1..n : Len(ps[i].bricks) >= m
        /\ \E i \in 1..n : Len(ps[i].bricks) = m

\* bricks is the round-robin interleaving of the first m devices of the
\* first n entries of ps
IsRoundRobin(bricks, ps, n, m) ==
    /\ Len(bricks) = n * m
    /\ \A j \in 1..m : \A i \in 1..n :
          /\ bricks[(j - 1) * n + i].peer.hostname = ps[i].address
          /\ bricks[(j - 1) * n + i].path = ps[i].bricks[j]

\* the hostnames of the peers that own a brick in the volume
ServingHosts(vol) == {vol.bricks[b].peer.hostname : b \in 1..Len(vol.bricks)}

\* the number of peer entries get_brick_list may place bricks on
Candidates(ps, vol) ==
    IF vol = NoVolume THEN Len(ps)
    ELSE Cardinality({i \in 1..Len(ps) : ps[i].address \notin ServingHosts(vol)})

\* C1: brick_and_server_product returns the round-robin interleaving of
\* every peer's first m = min(D_i) devices: N*m bricks, the brick at
\* position (j-1)*N+i is peer i's j-th device on peer i's address, and no
\* device at index above m is emitted.
C1_ProductRoundRobin ==
    op = "brick_and_server_product" =>
        LET n == Len(peers)
            m == MinDevices(peers, n)
        IN  /\ IsRoundRobin(result, peers, n, m)
            /\ \A k \in 1..Len(result) : result[k].path <= m

\* C1 witness: a product over peers with unequal, non-zero device counts
C1_Witness ==
    /\ op = "brick_and_server_product"
    /\ Len(peers) >= 2
    /\ \E i, j \in 1..Len(peers) :
          /\ Len(peers[i].bricks) > Len(peers[j].bricks)
          /\ Len(peers[j].bricks) >= 1
    /\ \A i \in 1..Len(peers) : Len(peers[i].bricks) >= 1

\* C2 (as claimed): with an existing volume no brick returned by
\* get_brick_list sits on a peer that already owns a brick in the volume.
C2_NoBrickOnServingPeer ==
    (op = "get_brick_list" /\ volume # NoVolume /\ result.ok) =>
        \A k \in 1..Len(result.value) :
            result.value[k].peer.hostname \notin ServingHosts(volume)

\* C3: with no volume and N > R peers, get_brick_list places bricks only
\* on the first floor(N/R)*R entries, in their given order, round robin.
C3_KeepsLeadingMultiple ==
    (op = "get_brick_list" /\ volume = NoVolume /\ Len(peers) > replicas) =>
        LET keep == (Len(peers) \div replicas) * replicas
        IN  /\ result.ok
            /\ IsRoundRobin(result.value, peers, keep,
                            MinDevices(peers, keep))
            /\ \A k \in 1..Len(result.value) :
                  \A i \in keep + 1..Len(peers) :
                      result.value[k].peer.hostname # peers[i].address

\* C3 witness: a trailing remainder is dropped and bricks are placed
C3_Witness ==
    /\ op = "get_brick_list"
    /\ volume = NoVolume
    /\ Len(peers) > replicas
    /\ Len(peers) % replicas # 0
    /\ result.ok
    /\ Len(result.value) >= 2
    /\ Len(peers[Len(peers)].bricks) >= 1

\* C4: with fewer candidate peer entries than R, get_brick_list returns
\* the value Err(WaitForMorePeers) and emits no bricks.
C4_WaitForMorePeers ==
    (op = "get_brick_list" /\ Candidates(peers, volume) < replicas) =>
        result = Err("WaitForMorePeers")

\* C4 witness: too few new peers beside a volume whose peers would suffice
C4_Witness ==
    /\ op = "get_brick_list"
    /\ volume # NoVolume
    /\ Candidates(peers, volume) < replicas
    /\ Len(peers) >= replicas
    /\ Candidates(peers, volume) >= 1

\* ======================================================== upgrade claims
\* the marker file of this key is in the store
HasMarker(key) == key \in DOMAIN files

\* p has gone into lock_and_roll
EnteredLockAndRoll(p) == pc[p] \in {"rolling", "rolled", "lock_raised"}

\* p has left wait_on_previous_node with a return
LeftWait(p) == pc[p] \in {"waited", "rolling", "rolled", "lock_raised"}

\* the last pass of p's wait loop found the start marker of the peer before
\* it older than the threshold
LastPollAged(p) ==
    /\ polls[p] >= 1
    /\ HasMarker(StartKey(PreviousNode(p), NewVersion))
    /\ pollAt[p] - Threshold > files[StartKey(PreviousNode(p), NewVersion)]

\* C5 (as claimed): while a peer is between its start stamp and its done
\* stamp, and the start is not older than 600 s, no other peer runs its
\* upgrade steps: at most one peer is upgrading at a time.
C5_OnePeerUpgrading ==
    \A p, q \in Peers :
        (/\ pc[p] = "rolling"
         /\ now - startStamp[p] <= Threshold
         /\ pc[q] = "rolling") => p = q

C7_EndsWithDoneMarker ==
    \A p \in Peers :
        pc[p] \in {"rolled", "wait_raised", "lock_raised"} =>
            HasMarker(DoneKey(p, NewVersion))

\* C8 (as claimed): a pass of the wait loop that finds no done marker and a
\* readable start marker proceeds when the marker is older than 600 s and
\* sleeps when it is not.
C8_TimeoutOrSleep ==
    \A p \in Peers :
        (/\ polls[p] >= 1
         /\ ~ioError[p]
         /\ ~HasMarker(DoneKey(PreviousNode(p), NewVersion))
         /\ HasMarker(StartKey(PreviousNode(p), NewVersion))) =>
            IF LastPollAged(p) THEN LeftWait(p) ELSE pc[p] = "sleeping"

\* C9 (as claimed): the peer at index 0, once its roll has ended, has
\* returned from lock_and_roll with its start and done markers stored.
C9_HeadRollsAndStamps ==
    \A p \in Peers :
        (/\ Position(p) = 0
         /\ pc[p] \in {"rc_AttributeError", "rolled", "lock_raised"}) =>
            /\ pc[p] = "rolled"
            /\ HasMarker(StartKey(p, NewVersion))
            /\ HasMarker(DoneKey(p, NewVersion))

\* C10: when the peer before p has neither a done nor a start marker, p's
\* wait returns at its first pass, without a sleep.
C10_NoMarkersNoWait ==
    \A p \in Peers :
        (/\ polls[p] >= 1
         /\ ~HasMarker(DoneKey(PreviousNode(p), NewVersion))
         /\ ~HasMarker(StartKey(PreviousNode(p), NewVersion))) =>
            /\ LeftWait(p)
            /\ polls[p] = 1
            /\ sleeps[p] = 0

\* C10 witness: a wait that has returned from its first pass, no marker of
\* the peer before in a store that holds other markers
C10_Witness ==
    \E p \in Peers :
        /\ pc[p] = "waited"
        /\ polls[p] = 1
        /\ dirExists
        /\ HasMarker(StartKey(p, NewVersion))
        /\ ~HasMarker(DoneKey(PreviousNode(p), NewVersion))
        /\ ~HasMarker(StartKey(PreviousNode(p), NewVersion))

\* C11 (as claimed): once a peer has written its start marker
\* (gluster_key_set called from lock_and_roll), the store holds that key,
\* with the timestamp of the first write: the stamp the store already held
\* (0) or, for a key that was new, the stamp of this write.
C11_FirstWriteStored ==
    \A p \in Peers :
        EnteredLockAndRoll(p) =>
            /\ HasMarker(StartKey(p, NewVersion))
            /\ files[StartKey(p, NewVersion)] \in {0, startStamp[p]}

\* ============================================================ gate claims
\* the candidate found by apt compares strictly greater than the installed
\* version
CandidateGreater ==
    /\ conf.candidate.found
    /\ version_compare(conf.candidate.version, conf.installed) > 0

ReturnedValue(v) == result.out.kind = "return" /\ result.out.value = v

\* cluster_type, replication_level and extra_level all parse
ConfigParses ==
    /\ VolumeType(lower(conf.cluster_type)).kind = "return"
    /\ int(conf.replication_level).kind = "return"
    /\ int(conf.extra_level).kind = "return"

\* what the planner answers for the peers, volume and config of this state
PlannerAnswer ==
    get_brick_list(peers, volume, replication_level(conf.replication_level))

\* wait_for_peers was called and ended with its timeout error
WaitTimedOut ==
    /\ "ok" \in DOMAIN result.waited
    /\ ~result.waited.ok

\* C13 (as claimed): a create_volume whose wait_for_peers ended with the
\* timeout error issues no volume-create call and returns a failure.
C13_NoCreateAfterTimeout ==
    (op = "create_volume" /\ WaitTimedOut) =>
        /\ calls = <<>>
        /\ result.out.kind = "return"
        /\ ~result.out.value.ok

\* C14: create_volume issues at most one create call; it returns
\* Err(FailedToCreate) exactly when the call it issued failed and
\* Ok(Created) exactly when it succeeded; when the planner answers
\* WaitForMorePeers it returns Ok(WaitForMorePeers) and issues no call.
C14_CreateOutcome ==
    op = "create_volume" =>
        /\ Len(calls) <= 1
        /\ \A i \in 1..Len(calls) : calls[i].call.cmd = "create"
        /\ ReturnedValue(Err("FailedToCreate")) <=>
              (Len(calls) = 1 /\ ~calls[1].ok)
        /\ ReturnedValue(Ok("Created")) <=>
              (Len(calls) = 1 /\ calls[1].ok)
        /\ (/\ ConfigParses
            /\ ~PlannerAnswer.ok
            /\ PlannerAnswer.value = "WaitForMorePeers") =>
              /\ ReturnedValue(Ok("WaitForMorePeers"))
              /\ calls = <<>>

\* C14 witness: the one create call issued has failed
C14_Witness ==
    /\ op = "create_volume"
    /\ Len(calls) = 1
    /\ ~calls[1].ok
    /\ Len(calls[1].call.volbricks) >= 2
    /\ ReturnedValue(Err("FailedToCreate"))

\* the count arguments the table of volume types gives the create call for
\* replication_level R and extra_level E
TableKnobs(t, R, E) ==
    CASE t \in {"Replicate", "DistributedAndReplicate"} -> [replica |-> R]
      [] t = "Arbiter" -> [replica |-> R, arbiter |-> E]
      [] t \in {"StripedAndReplicate", "DistributedAndStripedAndReplicate"} ->
            [replica |-> R, stripe |-> E]
      [] t = "Disperse" -> [disperse |-> R, redundancy |-> E]
      [] t = "DistributedAndDisperse" -> [disperse |-> E, redundancy |-> None]
      [] t \in {"Stripe", "DistributedAndStripe"} -> [stripe |-> R]
      [] t = "Distribute" -> <<>>

\* the arguments every create call has
BaseArguments == {"cmd", "volname", "volbricks", "transport", "force"}

\* C15: the create call of create_volume carries, for each of the ten
\* volume types, exactly the counts of the table (taken from
\* replication_level R and extra_level E), the planner's bricks rendered as
\* "host:path" in the planner's order, and the tcp transport.
C15_KnobTable ==
    (op = "create_volume" /\ Len(calls) = 1) =>
        LET c == calls[1].call
            t == VolumeType(lower(conf.cluster_type)).value
            R == int(conf.replication_level).value
            E == int(conf.extra_level).value
            bricks == PlannerAnswer.value
            knobs == TableKnobs(t, R, E)
        IN  /\ DOMAIN c \ BaseArguments = DOMAIN knobs
            /\ \A k \in DOMAIN knobs : c[k] = knobs[k]
            /\ c.cmd = "create"
            /\ c.transport = "tcp"
            /\ Len(c.volbricks) = Len(bricks)
            /\ \A i \in 1..Len(bricks) :
                  c.volbricks[i] =
                      <<bricks[i].peer.hostname, ":", bricks[i].path>>

\* C15 witness: a DistributedAndDisperse volume, R and E different, two
\* rounds of bricks over two peers
C15_Witness ==
    /\ op = "create_volume"
    /\ Len(calls) = 1
    /\ conf.cluster_type = "distributed-disperse"
    /\ int(conf.replication_level).value = 2
    /\ int(conf.extra_level).value = 1
    /\ Len(calls[1].call.volbricks) = 4
    /\ calls[1].call.volbricks[2] # calls[1].call.volbricks[1]

\* C16: expand_volume returns Ok(Expanded) only after one add-brick call
\* with the planner's non-empty brick list that succeeded; an empty brick
\* list gives Ok(InvalidConfig) and no call; a WaitForMorePeers answer of
\* the planner is returned as Ok(WaitForMorePeers), with no call.
C16_ExpandOutcome ==
    op = "expand_volume" =>
        /\ ReturnedValue(Ok("Expanded")) =>
              /\ Len(calls) = 1
              /\ calls[1].call.cmd = "add-brick"
              /\ calls[1].call.volume = volume_name
              /\ PlannerAnswer.ok
              /\ calls[1].call.bricks = PlannerAnswer.value
              /\ calls[1].call.bricks # <<>>
              /\ calls[1].ok
        /\ (PlannerAnswer.ok /\ PlannerAnswer.value = <<>>) =>
              /\ ReturnedValue(Ok("InvalidConfig"))
              /\ calls = <<>>
        /\ (~PlannerAnswer.ok /\ PlannerAnswer.value = "WaitForMorePeers") =>
              /\ ReturnedValue(Ok("WaitForMorePeers"))
              /\ calls = <<>>

\* C16 witness: a volume served by one host is expanded onto new peers
C16_Witness ==
    /\ op = "expand_volume"
    /\ volume # NoVolume
    /\ ReturnedValue(Ok("Expanded"))
    /\ Len(calls) = 1
    /\ Len(calls[1].call.bricks) >= 2

\* C17 (as claimed): shrink_volume for a departing peer that owns bricks in
\* the existing volume issues one remove-brick call on the volume, with
\* the bricks of that peer.
C17_RemovesDepartingBricks ==
    (/\ op = "shrink_volume"
     /\ volume # NoVolume
     /\ result.peer.hostname \in ServingHosts(volume)) =>
        /\ Len(calls) = 1
        /\ calls[1].call.cmd = "remove-brick"
        /\ calls[1].call.volume = volume_name
        /\ calls[1].call.bricks # <<>>
        /\ \A i \in 1..Len(calls[1].call.bricks) :
              calls[1].call.bricks[i].peer.hostname = result.peer.hostname

\* C18 (as claimed): when the create call succeeded and the start call
\* that followed it failed, create_gluster_volume returns the failure
\* FailedToStart, not Created.
C18_StartFailureSurfaced ==
    (/\ op = "create_gluster_volume"
     /\ Len(calls) = 2
     /\ calls[1].call.cmd = "create" /\ calls[1].ok
     /\ calls[2].call.cmd = "start" /\ ~calls[2].ok) =>
        ReturnedValue(Err("FailedToStart"))

\* C19 (as claimed): with a replication_level that does not parse (the
\* rest of the configuration parsing), create_volume returns a Status
\* outcome, and the planner, as expand_volume calls it, works with a
\* replication factor of 3.
C19_UnparsableDefaultsToThree ==
    (/\ int(conf.replication_level).kind = "raise"
     /\ VolumeType(lower(conf.cluster_type)).kind = "return"
     /\ int(conf.extra_level).kind = "return") =>
        /\ op = "create_volume" =>
              /\ result.out.kind = "return"
              /\ result.out.value.value \in Status
        /\ op = "expand_volume" =>
              LET bl == get_brick_list(peers, volume, 3)
              IN  /\ result.out.kind = "return"
                  /\ (bl.ok /\ bl.value # <<>>) =>
                        (Len(calls) = 1 /\ calls[1].call.bricks = bl.value)
                  /\ ~bl.ok => ReturnedValue(Ok(bl.value))

\* ============================================================ peer claims
\* C20: peers_are_ready is true iff no peer of the list has a status other
\* than Connected; one peer in any other state makes it false.
C20_ReadyIffAllConnected ==
    op = "peers_are_ready" =>
        (result <=>
            ~\E i \in 1..Len(conf.peer_list) :
                conf.peer_list[i].status \in (State \cup {None}) \ {"Connected"})

\* C20 witness: one peer in PeerInCluster beside connected peers
C20_Witness ==
    /\ op = "peers_are_ready"
    /\ Len(conf.peer_list) >= 2
    /\ conf.peer_list[1].status = "PeerInCluster"
    /\ \A i \in 2..Len(conf.peer_list) : conf.peer_list[i].status = "Connected"
    /\ result = FALSE

\* ------------------------------------------------------ wait_for_peers claims
\* C21 (as claimed): wait_for_peers sleeps 1 s between polls, returns Ok at
\* the first poll that finds every peer Connected, and returns the timeout
\* error after 600 iterations without readiness: a call never sleeps more
\* than 600 times, and the error comes with exactly 600 sleeps behind it.
C21_AtMostMaxIterationsSleeps ==
    /\ slept <= MaxIterations
    /\ op = "wait_for_peers returned" =>
          IF result.ok
          THEN /\ peers_are_ready(peer_status(slept, conf.ready_at))
               /\ \A n \in 0..(slept - 1) :
                      ~peers_are_ready(peer_status(n, conf.ready_at))
          ELSE slept = MaxIterations

\* ---------------------------------------------------------- peer.State claims
\* C22 (as claimed): State.from_str(s) returns the member whose value equals
\* s when case is ignored, for the value of each of the 14 members, and
\* raises the parse error, never a default member, for every other string.
C22_ParsesEveryMemberValue ==
    op = "from_str" =>
        LET matches == {m \in DOMAIN StateValue :
                           str_lower(StateValue[m]) = str_lower(conf.string)}
        IN  IF matches # {}
            THEN result.kind = "return" /\ result.value \in matches
            ELSE result = Raised("ValueError")

\* -------------------------------------------------------- more planner claims
\* where an entry of the peer map stands in it
PositionIn(ps, e) == CHOOSE i \in 1..Len(ps) : ps[i] = e

\* C23: find_new_peers returns exactly the entries of the peer map whose
\* address is the hostname of no brick's peer in the volume (the address is
\* compared, not the unit or a uuid), each under its own key and in the
\* order of the input.
C23_NewPeersByAddress ==
    op = "find_new_peers" =>
        LET served == {volume.bricks[b].peer.hostname :
                          b \in 1..Len(volume.bricks)}
            entries(s) == {s[i] : i \in 1..Len(s)}
        IN  /\ entries(result) = {e \in entries(peers) : e.address \notin served}
            /\ \A i, j \in 1..Len(result) :
                   i < j => PositionIn(peers, result[i])
                               < PositionIn(peers, result[j])

\* C23 witness: two new peers are returned in the order of the map, a third
\* entry is left out, and a returned unit carries the number of a serving
\* host while its address does not
C23_Witness ==
    /\ op = "find_new_peers"
    /\ Len(result) = 2
    /\ Len(peers) = 3
    /\ \E i \in 1..Len(result) : \E b \in 1..Len(volume.bricks) :
           /\ result[i].unit = volume.bricks[b].peer.hostname
           /\ result[i].address # volume.bricks[b].peer.hostname

\* ----------------------------------------------------------- peer_probe claims
\* C24 (as claimed): peer_probe prevents double probing: with the current
\* peer list at hand it issues a probe call for a hostname exactly when no
\* peer of the list has that hostname, so a host already in the cluster is
\* never probed again.
C24_NoDoubleProbe ==
    (op = "peer_probe" /\ peer_list(gpeer_pool(conf)).kind = "return") =>
        LET current_peers == peer_list(gpeer_pool(conf)).value
            listed == \E i \in 1..Len(current_peers) :
                          current_peers[i].hostname.value = result.hostname
        IN  IF listed THEN calls = <<>>
            ELSE /\ Len(calls) = 1
                 /\ calls[1].call = probe_call(Str(result.hostname))

\* ---------------------------------------------------------- more marker claims
\* C25 (as claimed): lock_and_roll writes the start marker before the
\* upgrade steps begin and the done marker only after they have returned:
\* a peer in its upgrade steps has its start marker stored, and in every
\* state of the store a done marker comes with a start marker of the same
\* peer and version whose timestamp is not later.
C25_StartBeforeDone ==
    \A p \in Peers :
        /\ pc[p] = "rolling" =>
              /\ gluster_key_exists(files, dirExists, StartKey(p, NewVersion))
              /\ files[StartKey(p, NewVersion)] <= now
        /\ gluster_key_exists(files, dirExists, DoneKey(p, NewVersion)) =>
              /\ gluster_key_exists(files, dirExists, StartKey(p, NewVersion))
              /\ files[StartKey(p, NewVersion)]
                    <= files[DoneKey(p, NewVersion)]

\* C26 (as claimed): when lock_and_roll has returned Ok for a peer and the
\* version, gluster_key_exists reports its start key and its done key as
\* present, whether or not the marker directory existed before the call.
C26_OkMeansBothStored ==
    \A p \in Peers :
        pc[p] = "rolled" =>
            /\ gluster_key_exists(files, dirExists, StartKey(p, NewVersion))
            /\ gluster_key_exists(files, dirExists, DoneKey(p, NewVersion))

\* ------------------------------------------------------ more lifecycle claims
\* C27 (as claimed): create_volume never issues a volume-create call with
\* an empty brick list: when the planner's placement yields no bricks (a
\* participating peer entry has no devices), no create call is made and
\* Created is not returned.
C27_NoCreateWithoutBricks ==
    op = "create_volume" =>
        /\ \A i \in 1..Len(calls) :
               calls[i].call.cmd = "create" => calls[i].call.volbricks # <<>>
        /\ PlannerAnswer = Ok(<<>>) =>
               /\ calls = <<>>
               /\ ~ReturnedValue(Ok("Created"))

CreatedInThisInvocation ==
    /\ op' = "initialize_volume"
    /\ result'.is_leader
    /\ result'.info = "ok"
    /\ volume = NoVolume
    /\ \E create_ok \in BOOLEAN :
           /\ create_volume(conf, peers, NoVolume, create_ok).out
                 = Returned(Ok("Created"))
           /\ Len(calls') >= 1
           /\ calls'[1].ok = create_ok
           /\ calls'[1].call.cmd = "create"

\* C29: over any sequence of initialize_volume invocations the flags
\* volume.started and volume.created are set only in an invocation where
\* the unit is the leader, the volume did not exist yet and create_volume
\* returned Created; volume.created implies volume.started in every state,
\* and a unit that is not the leader issues no volume-create call.
C29_FlagsOnlyOnCreated ==
    [][/\ flags' # flags => CreatedInThisInvocation
       /\ "volume.created" \in flags' => "volume.started" \in flags'
       /\ (op' = "initialize_volume" /\ ~result'.is_leader) =>
             /\ calls' = <<>>
             /\ flags' = flags]_vars

\* C29 witness: the leader has created the volume and both flags are set,
\* although the start command failed
C29_Witness ==
    /\ op = "initialize_volume"
    /\ result.is_leader
    /\ flags = {"volume.started", "volume.created"}
    /\ Len(calls) = 2
    /\ calls[1].call.cmd = "create"
    /\ volume # NoVolume

\* ------------------------------------------------------ server_connected claims
\* the units of a list
UnitsOf(list) == {list[k] : k \in 1..Len(list)}

\* the address of a unit of the peer map
AddressOf(unit) ==
    peers[CHOOSE i \in 1..Len(peers) : peers[i].unit = unit].address

\* a probe call for this unit is among the calls, with this outcome
ProbedWith(cs, unit, ok) ==
    \E k \in 1..Len(cs) :
        /\ cs[k].call = probe_call(Str(AddressOf(unit)))
        /\ cs[k].ok = ok

\* C30: across any sequence of server_connected invocations on the leader
\* a unit is added to the stored probed-units list only after its probe
\* call succeeded, a unit in the list is never probed again, a unit whose
\* probe failed stays out of the list and is probed again at the next
\* invocation; a unit that is not the leader never probes.
C30_ProbedUnitsList ==
    [][op' = "server_connected" =>
        LET before == UnitsOf(loaded_probed_units(settings))
            after == UnitsOf(loaded_probed_units(settings'))
            pending == SelectSeq([i \in 1..Len(peers) |-> peers[i].unit],
                                 LAMBDA u : u \notin before)
        IN  IF ~result'.is_leader
            THEN calls' = <<>> /\ settings' = settings
            ELSE /\ before \subseteq after
                 /\ \A u \in after \ before : ProbedWith(calls', u, TRUE)
                 /\ \A u \in before :
                        /\ ~ProbedWith(calls', u, TRUE)
                        /\ ~ProbedWith(calls', u, FALSE)
                        /\ u \notin UnitsOf(result'.attempted)
                 /\ \A u \in UnitsOf(pending) :
                        ProbedWith(calls', u, FALSE) => u \notin after
                 /\ result'.out.kind = "return" =>
                        result'.attempted = pending]_vars

\* C30 witness: at an invocation on the leader one unit is in the stored
\* list and is left alone, a second one is probed again after a failed
\* probe and fails again
C30_Witness ==
    /\ op = "server_connected"
    /\ result.is_leader
    /\ Len(peers) = 3
    /\ Len(loaded_probed_units(settings)) = 2
    /\ Len(calls) = 1
    /\ ~calls[1].ok
    /\ result.out.kind = "return"

====
